---- MODULE Spec2Model ----
(***************************************************************************)
(* Model of automl/datautils.py (class Encoder) and of                     *)
(* frameworks/H2OAutoML/exec.py (function run).                            *)
(*                                                                         *)
(* Python values are records [k, i]:                                       *)
(*   k = "str"   a string, i its rank in Python's string order             *)
(*                (1 = '', 2 = 'NA', 3 = 'a')                              *)
(*   k = "none"  None                                                      *)
(*   k = "int"   an element of an integer array, i the number              *)
(*   k = "flt"   an element of a float64 array, i the number               *)
(*   k = "nan"   np.NaN                                                    *)
(*   k = "rowi"  a row of an integer indicator matrix: i is the 1-based    *)
(*   k = "rowf"  (float matrix)  position of its single 1, 0 = all zeros   *)
(* A Python object handed to or returned by a method is a record           *)
(*   [err, shape, v]: err = "" or the exception raised, shape = "scalar"   *)
(*   or "seq", v the sequence of its elements (one element for a scalar).  *)
(* The sklearn and numpy primitives are modelled by their documented       *)
(* behaviour on one column of values; array rank (1-D against 2-D) is not  *)
(* represented.                                                            *)
(***************************************************************************)
EXTENDS Integers, Sequences, FiniteSets, TLC

VARIABLES
    OrdinalEncoder,  \* the class the name OrdinalEncoder is bound to at import
    enc,             \* the Encoder instance (exists = FALSE: none constructed)
    call,            \* the last call on the encoder: op, argument, outcome
    lastFit,         \* history: argument of the last fit that returned
    pc,              \* run(): position in the function body
    conn,            \* run(): "none", "open" or "closed" cluster connection
    runIn,           \* run(): config.metric and whether the engine yields a leader
    sort_metric,     \* run(): the H2O metric name, "None" when unmapped
    outcome          \* run(): "", "returned", or the exception leaving run

vars == <<OrdinalEncoder, enc, call, lastFit, pc, conn, runIn, sort_metric, outcome>>
encVars == <<OrdinalEncoder, enc, call, lastFit>>
runVars == <<pc, conn, runIn, sort_metric, outcome>>

----------------------------------------------------------------------------
(* Bounds *)
\* longest column handed to fit, transform or inverse_transform
MaxLen == 1

----------------------------------------------------------------------------
(* Values *)
S(r) == [k |-> "str", i |-> r]
None == [k |-> "none", i |-> 0]
NaN == [k |-> "nan", i |-> 0]
EMPTY == S(1)
NA == S(2)
A == S(3)

IsStr(v) == v.k = "str"

InputValues == {NA, A, None}

\* the non-empty columns of at most n values
SeqsUpTo(n) == UNION {[1..m -> InputValues] : m \in 1..n}

Obj(shape, v) == [err |-> "", shape |-> shape, v |-> v]
Raise(e) == [err |-> e, shape |-> "seq", v |-> <<>>]
NoObj == [err |-> "", shape |-> "none", v |-> <<>>]

Lists == {Obj("seq", s) : s \in SeqsUpTo(MaxLen)}
Scalars == {Obj("scalar", <<x>>) : x \in InputValues}
Inputs == Lists \cup Scalars

Range(s) == {s[j] : j \in 1..Len(s)}

----------------------------------------------------------------------------
(* numpy primitives *)

RECURSIVE SortSet(_)
SortSet(X) ==
    IF X = {} THEN <<>>
    ELSE LET m == CHOOSE x \in X : \A y \in X : x.i <= y.i
         IN  <<m>> \o SortSet(X \ {m})

\* np.unique(arr): the sorted distinct elements. Sorting an array that holds
\* None beside another element compares None with '<' and raises TypeError.
np_unique(arr) ==
    IF None \in Range(arr) /\ Len(arr) >= 2 THEN Raise("TypeError")
    ELSE Obj("seq", SortSet(Range(arr)))

\* np.insert(arr, 0, x)
np_insert(arr, x) == <<x>> \o arr

\* position of v in the sorted vocabulary cls (0 when absent)
IndexOf(cls, v) ==
    IF v \in Range(cls) THEN CHOOSE j \in 1..Len(cls) : cls[j] = v ELSE 0

----------------------------------------------------------------------------
(* sklearn delegates, by class name.  cls is the fitted vocabulary          *)
(* (classes_ / categories_).                                               *)

\* element kind of the array a delegate's transform returns
OutKind(d) ==
    CASE d = "LabelEncoder" -> "int"
      [] d = "OrdinalEncoder" -> "flt"
      [] d = "LabelBinarizer" -> "rowi"
      [] OTHER -> "rowf"

\* LabelEncoder / OrdinalEncoder: code = position in the sorted vocabulary,
\* an unseen value raises ValueError.
\* LabelBinarizer: indicator row; a value outside classes_ is left out of the
\* matrix (all-zero row); with two classes the matrix is the single column of
\* the second class, with one class a column of zeros.
\* OneHotEncoder(handle_unknown='ignore'): indicator row, all zeros for an
\* unknown category.
DelegateTransformOne(d, cls, v) ==
    LET j == IndexOf(cls, v)
    IN  CASE d \in {"LabelEncoder", "OrdinalEncoder"} -> [k |-> OutKind(d), i |-> j - 1]
          [] d = "LabelBinarizer" ->
                [k |-> "rowi", i |-> IF Len(cls) <= 2 THEN (IF j = 2 THEN 1 ELSE 0) ELSE j]
          [] OTHER -> [k |-> "rowf", i |-> j]

DelegateTransform(d, cls, vec) ==
    IF d \in {"LabelEncoder", "OrdinalEncoder"} /\ \E j \in 1..Len(vec) : vec[j] \notin Range(cls)
    THEN Raise("ValueError")
    ELSE Obj("seq", [j \in 1..Len(vec) |-> DelegateTransformOne(d, cls, vec[j])])

\* inverse_transform of one encoded element; [k |-> "bad"] when the delegate
\* cannot decode it.
Bad == [k |-> "bad", i |-> 0]

DelegateInverseOne(d, cls, y) ==
    CASE d \in {"LabelEncoder", "OrdinalEncoder"} ->
            IF y.k \in {"int", "flt"} /\ y.i >= 0 /\ y.i < Len(cls) THEN cls[y.i + 1] ELSE Bad
      [] d = "LabelBinarizer" ->
            IF y.k \notin {"rowi", "rowf"} \/ Len(cls) = 0 THEN Bad
            ELSE IF Len(cls) = 1 THEN cls[1]
            ELSE IF Len(cls) = 2 THEN (IF y.i > 0 THEN cls[2] ELSE cls[1])
            ELSE IF y.i >= 1 /\ y.i <= Len(cls) THEN cls[y.i] ELSE cls[1]
      [] OTHER ->
            IF y.k \notin {"rowi", "rowf"} \/ y.i > Len(cls) THEN Bad
            ELSE IF y.i = 0 THEN None ELSE cls[y.i]

DelegateInverse(d, cls, vec) ==
    IF \E j \in 1..Len(vec) : DelegateInverseOne(d, cls, vec[j]) = Bad
    THEN Raise("ValueError")
    ELSE Obj("seq", [j \in 1..Len(vec) |-> DelegateInverseOne(d, cls, vec[j])])

----------------------------------------------------------------------------
(* class Encoder *)

TypeNames == {"label", "one-hot", "no-op", "binary"}
MissingHandles == {"ignore", "mask", "encode", "drop"}
EncodedTypes == {"float", "int"}
\* the missing_values arguments tried: None (the default) and ['NA']
MissingValuesArgs == {{}, {NA}}

NoEncoder ==
    [exists |-> FALSE, for_target |-> FALSE, missing_handle |-> "", missing_values |-> {},
     missing_replaced_by |-> None, missing_encoded_value |-> None, encoded_type |-> "",
     str_encoder |-> "None", delegate |-> "None",
     classes |-> NoObj, enc_classes |-> NoObj,
     str_classes |-> NoObj, delegate_classes |-> NoObj]

\* faulty variant: the policy name is not validated
InitError_TypeOnly(type, missing_handle) ==
    IF type \notin {"label", "one-hot", "no-op"} THEN "ValueError" ELSE ""

\* Encoder.__init__: the exception it raises, "" when it returns
InitError(type, missing_handle) ==
    IF missing_handle \notin {"ignore", "mask", "encode"} THEN "AssertionError"
    ELSE IF type \notin {"label", "one-hot", "no-op"} THEN "ValueError"
    ELSE ""

\* Encoder.__init__: the instance it builds (missing_replaced_by = '', the default)
NewEncoder(ord, type, target, encoded_type, missing_handle, missing_values) ==
    [exists |-> TRUE,
     for_target |-> target,
     missing_handle |-> missing_handle,
     missing_values |-> IF missing_values # {} THEN missing_values \cup {None} ELSE {None},
     missing_replaced_by |-> EMPTY,
     missing_encoded_value |-> None,
     encoded_type |-> IF target THEN "int" ELSE encoded_type,
     str_encoder |-> IF type = "one-hot" /\ ~target THEN ord ELSE "None",
     delegate |-> CASE type = "label" -> (IF target THEN "LabelEncoder" ELSE ord)
                    [] type = "one-hot" -> (IF target THEN "LabelBinarizer" ELSE "OneHotEncoder")
                    [] OTHER -> "None",
     classes |-> NoObj, enc_classes |-> NoObj,
     str_classes |-> NoObj, delegate_classes |-> NoObj]

\* faulty variant: the no-op early return is missing
HasDelegate_Always(e) == TRUE

\* the test `if not self.delegate` of fit, transform and inverse_transform
HasDelegate(e) == e.delegate # "None"

ignore_missing(e) == e.for_target \/ e.missing_handle = "ignore"
mask_missing(e) == ~e.for_target /\ e.missing_handle = "mask"
encode_missing(e) == ~e.for_target /\ e.missing_handle = "encode"

\* the array the delegate is fitted on in Encoder.fit
FitDelegateInput(classes, enc_classes) == classes

\* faulty variant: an incremental fit that keeps the classes of earlier fits
FitClasses_Incremental(e, vec) ==
    IF ignore_missing(e) THEN np_unique(e.classes.v \o vec)
    ELSE np_unique(np_insert(e.classes.v \o vec, e.missing_replaced_by))

\* self.classes as Encoder.fit computes it from vec
FitClasses(e, vec) ==
    IF ignore_missing(e) THEN np_unique(vec)
    ELSE np_unique(np_insert(vec, e.missing_replaced_by))

\* Encoder.fit(x): [err, e] = the exception raised ("" when fit returns self)
\* and the instance afterwards
fit(e, x) ==
    IF ~HasDelegate(e) THEN [err |-> "", e |-> e]
    ELSE
    LET u == FitClasses(e, x.v) IN
    IF u.err # "" THEN [err |-> u.err, e |-> e]
    ELSE
    LET e1 == [e EXCEPT !.classes = u]
        tr == IF e.str_encoder # "None"
              THEN DelegateTransform(e.str_encoder, u.v, u.v)
              ELSE u
        e2 == IF e.str_encoder # "None"
              THEN [e1 EXCEPT !.str_classes = u, !.enc_classes = tr]
              ELSE [e1 EXCEPT !.enc_classes = u]
        din == FitDelegateInput(e2.classes, e2.enc_classes)
        e3 == [e2 EXCEPT !.delegate_classes = np_unique(din.v)]
    IN  IF mask_missing(e)
        THEN [err |-> "",
              e |-> [e3 EXCEPT !.missing_encoded_value =
                         DelegateTransform(e.delegate, e3.delegate_classes.v, din.v).v[1]]]
        ELSE [err |-> "", e |-> e3]

\* res.astype(t)
astype(vec, t) ==
    [j \in 1..Len(vec) |->
        IF t = "float" /\ vec[j].k = "int" THEN [vec[j] EXCEPT !.k = "flt"]
        ELSE IF t = "float" /\ vec[j].k = "rowi" THEN [vec[j] EXCEPT !.k = "rowf"]
        ELSE IF t = "int" /\ vec[j].k = "flt" THEN [vec[j] EXCEPT !.k = "int"]
        ELSE IF t = "int" /\ vec[j].k = "rowf" THEN [vec[j] EXCEPT !.k = "rowi"]
        ELSE vec[j]]

\* res[mask] = ph: an integer array takes neither NaN nor None
AssignMasked(vec, mask, ph) ==
    IF \E j \in 1..Len(vec) : vec[j].k \in {"int", "rowi"}
    THEN Raise(IF ph = NaN THEN "ValueError" ELSE "TypeError")
    ELSE Obj("seq", [j \in 1..Len(vec) |-> IF mask[j] THEN NaN ELSE vec[j]])

\* the cast guard of the mask branch: cast when None is among the masked entries
CastNeeded(missing) == None \in missing

\* faulty variant: the length-1 array of a wrapped string is returned as it is
return_value_Array(wrapped, r) ==
    IF r.err # "" THEN r ELSE Obj("seq", r.v)

\* return_value: v[0] for a wrapped string, v otherwise
return_value(wrapped, r) ==
    IF r.err # "" THEN r
    ELSE IF wrapped THEN Obj("scalar", <<r.v[1]>>)
    ELSE Obj("seq", r.v)

\* the mask-or-encode branch of Encoder.transform, entered when any(mask)
TransformMissing(e, wrapped, vec, mask) ==
    LET nvec == [j \in 1..Len(vec) |-> IF mask[j] THEN e.missing_replaced_by ELSE vec[j]]
        missing == {vec[j] : j \in {n \in 1..Len(vec) : mask[n]}}
        res == DelegateTransform(e.delegate, e.delegate_classes.v, nvec)
    IN  IF res.err # "" THEN res
        ELSE IF mask_missing(e) /\ e.encoded_type # "int"
        THEN LET res1 == IF CastNeeded(missing) THEN astype(res.v, e.encoded_type) ELSE res.v
             IN  return_value(wrapped,
                     AssignMasked(res1, mask, IF e.encoded_type = "float" THEN NaN ELSE None))
        ELSE return_value(wrapped, res)

\* the pre-encoding step of Encoder.transform
PreEncode(e, vec) ==
    IF e.str_encoder # "None"
    THEN DelegateTransform(e.str_encoder, e.str_classes.v, vec)
    ELSE Obj("seq", vec)

\* Encoder.transform(x)
transform(e, x) ==
    IF ~HasDelegate(e) THEN x
    ELSE IF e.delegate_classes = NoObj THEN Raise("NotFittedError")
    ELSE IF x.shape = "scalar" /\ ~IsStr(x.v[1]) THEN Raise("TypeError")
    ELSE
    LET wrapped == x.shape = "scalar"
        pre == PreEncode(e, x.v)
    IN  IF pre.err # "" THEN pre
        ELSE
        LET vec == pre.v
            mask == [j \in 1..Len(vec) |-> vec[j] \in e.missing_values]
        IN  IF (mask_missing(e) \/ encode_missing(e)) /\ \E j \in 1..Len(vec) : mask[j]
            THEN TransformMissing(e, wrapped, vec, mask)
            ELSE return_value(wrapped,
                     DelegateTransform(e.delegate, e.delegate_classes.v, vec))

\* Encoder.inverse_transform(y)
inverse_transform(e, y) ==
    IF ~HasDelegate(e) THEN y
    ELSE IF e.delegate_classes = NoObj THEN Raise("NotFittedError")
    ELSE LET r == DelegateInverse(e.delegate, e.delegate_classes.v, y.v)
         IN  IF r.err # "" THEN r ELSE Obj(y.shape, r.v)

----------------------------------------------------------------------------
(* The encoder's callers: construct once, then fit / transform /           *)
(* inverse_transform in any order.                                         *)

\* src: for an inverse_transform of a transform's result, that transform's argument
\* prev: for a fit, the argument of the fit that had returned before it
\* type, missing_handle: for __init__, the two names it was given
NoCall ==
    [op |-> "", arg |-> NoObj, ret |-> NoObj, err |-> "", self |-> FALSE, src |-> NoObj,
     prev |-> NoObj, type |-> "", missing_handle |-> ""]

InitEnc ==
    /\ OrdinalEncoder \in {"OrdinalEncoder", "LabelEncoder"}
    /\ enc = NoEncoder
    /\ call = NoCall
    /\ lastFit = NoObj

Construct ==
    /\ call.op = ""
    /\ \E type \in TypeNames, target \in BOOLEAN, et \in EncodedTypes,
          mh \in MissingHandles, mv \in MissingValuesArgs :
          LET er == InitError(type, mh) IN
          /\ enc' = IF er = "" THEN NewEncoder(OrdinalEncoder, type, target, et, mh, mv)
                    ELSE NoEncoder
          /\ call' = [NoCall EXCEPT !.op = "init", !.err = er, !.type = type,
                                    !.missing_handle = mh]
    /\ UNCHANGED <<OrdinalEncoder, lastFit, runVars>>

Fit ==
    /\ enc.exists
    /\ \E x \in Lists :
          LET r == fit(enc, x) IN
          /\ enc' = r.e
          /\ call' = [NoCall EXCEPT !.op = "fit", !.arg = x, !.err = r.err,
                                    !.self = (r.err = ""), !.prev = lastFit]
          /\ lastFit' = IF r.err = "" THEN x ELSE lastFit
    /\ UNCHANGED <<OrdinalEncoder, runVars>>

Transform ==
    /\ enc.exists
    /\ \E x \in Inputs :
          LET r == transform(enc, x) IN
          call' = [NoCall EXCEPT !.op = "transform", !.arg = x, !.ret = r, !.err = r.err]
    /\ UNCHANGED <<OrdinalEncoder, enc, lastFit, runVars>>

\* inverse_transform on what the last transform returned, or on a fresh input
InverseTransform ==
    /\ enc.exists
    /\ \E y \in (IF call.op = "transform" /\ call.err = "" THEN {call.ret} ELSE {}) \cup Scalars :
          LET r == inverse_transform(enc, y) IN
          call' = [NoCall EXCEPT !.op = "inverse_transform", !.arg = y, !.ret = r,
                                 !.err = r.err,
                                 !.src = IF call.op = "transform" /\ call.err = "" /\ y = call.ret
                                         THEN call.arg ELSE NoObj]
    /\ UNCHANGED <<OrdinalEncoder, enc, lastFit, runVars>>

RunIdle ==
    /\ pc = "idle"
    /\ conn = "none"
    /\ runIn = [metric |-> "auc", leader |-> TRUE]
    /\ sort_metric = "None"
    /\ outcome = ""

Init == InitEnc /\ RunIdle

Next == Construct \/ Fit \/ Transform \/ InverseTransform

Spec == Init /\ [][Next]_vars

----------------------------------------------------------------------------
(* frameworks/H2OAutoML/exec.py: run(dataset, config), one action per      *)
(* statement that can raise.  A raising statement inside the try block     *)
(* leaves the exception pending in outcome and enters the finally block.   *)

Metrics == {"acc", "auc", "logloss", "mae", "mse", "rmse", "rmsle", "f1"}

metrics_mapping(m) ==
    CASE m = "acc" -> "mean_per_class_error"
      [] m = "auc" -> "AUC"
      [] m = "logloss" -> "logloss"
      [] m = "mae" -> "mae"
      [] m = "mse" -> "mse"
      [] m = "rmse" -> "rmse"
      [] m = "rmsle" -> "rmsle"
      [] OTHER -> "None"

InitRun ==
    /\ OrdinalEncoder = "OrdinalEncoder"
    /\ enc = NoEncoder /\ call = NoCall /\ lastFit = NoObj
    /\ pc = "start"
    /\ conn = "none"
    /\ runIn \in [metric : Metrics, leader : BOOLEAN]
    /\ sort_metric = "None"
    /\ outcome = ""

\* a statement of the try block: it returns, or raises exc
TryStep(from, to, exc) ==
    /\ pc = from
    /\ \/ pc' = to /\ outcome' = outcome
       \/ pc' = "finally" /\ outcome' = exc
    /\ UNCHANGED <<conn, runIn, sort_metric, encVars>>

RunStart ==
    /\ pc = "start"
    /\ sort_metric' = metrics_mapping(runIn.metric)
    /\ pc' = "h2o_init"
    /\ UNCHANGED <<conn, runIn, outcome, encVars>>

\* h2o.init(...): opens the connection, or raises with none open
H2OInit ==
    /\ pc = "h2o_init"
    /\ \/ pc' = "import_train" /\ conn' = "open" /\ outcome' = outcome
       \/ pc' = "finally" /\ conn' = "none" /\ outcome' = "H2OConnectionError"
    /\ UNCHANGED <<runIn, sort_metric, encVars>>

ImportTrain == TryStep("import_train", "import_test", "H2OResponseError")
ImportTest == TryStep("import_test", "automl", "H2OResponseError")
NewAutoML == TryStep("automl", "train", "H2OValueError")
Train == TryStep("train", "leader", "H2OJobError")

\* if not aml.leader: raise NoResultError(...)
CheckLeader ==
    /\ pc = "leader"
    /\ IF runIn.leader
       THEN pc' = "leaderboard" /\ outcome' = outcome
       ELSE pc' = "finally" /\ outcome' = "NoResultError"
    /\ UNCHANGED <<conn, runIn, sort_metric, encVars>>

Leaderboard == TryStep("leaderboard", "predict", "H2OResponseError")
Predict == TryStep("predict", "save", "H2OResponseError")
SavePredictions == TryStep("save", "return", "IOError")

\* return dict(...): the result is pending while the finally block runs
Return ==
    /\ pc = "return"
    /\ pc' = "finally"
    /\ outcome' = "returned"
    /\ UNCHANGED <<conn, runIn, sort_metric, encVars>>

\* finally: if h2o.connection(): h2o.remove_all(); an exception raised here
\* replaces the pending outcome and leaves run
FinallyRemoveAll ==
    /\ pc = "finally"
    /\ IF conn = "open"
       THEN \/ pc' = "close" /\ outcome' = outcome
            \/ pc' = "done" /\ outcome' = "H2OServerError"
       ELSE pc' = "done" /\ outcome' = outcome
    /\ UNCHANGED <<conn, runIn, sort_metric, encVars>>

\* h2o.connection().close()
FinallyClose ==
    /\ pc = "close"
    /\ conn' = "closed"
    /\ pc' = "done"
    /\ UNCHANGED <<runIn, sort_metric, outcome, encVars>>

NextRun ==
    \/ RunStart \/ H2OInit \/ ImportTrain \/ ImportTest \/ NewAutoML \/ Train
    \/ CheckLeader \/ Leaderboard \/ Predict \/ SavePredictions \/ Return
    \/ FinallyRemoveAll \/ FinallyClose

SpecRun == InitRun /\ [][NextRun]_vars

----------------------------------------------------------------------------
(* Properties of the encoder, stated for Spec *)

Fitted == enc.exists /\ HasDelegate(enc) /\ enc.delegate_classes # NoObj
Observed(v) == lastFit # NoObj /\ v \in Range(lastFit.v)
Missing(v) == v \in enc.missing_values
OneHotFeature == enc.delegate = "OneHotEncoder"

\* C1: round trip. After fit, transform accepts every non-missing value that
\* occurred in the fitted column, as a scalar or in a sequence, and
\* inverse_transform of what transform returned is the input again.
C1_RoundTrip ==
    /\ (/\ call.op = "transform" /\ Fitted
        /\ \A j \in 1..Len(call.arg.v) : Observed(call.arg.v[j]) /\ ~Missing(call.arg.v[j]))
       => call.err = ""
    /\ (/\ call.op = "inverse_transform" /\ Fitted /\ call.src # NoObj
        /\ \A j \in 1..Len(call.src.v) : Observed(call.src.v[j]) /\ ~Missing(call.src.v[j]))
       => (call.err = "" /\ call.ret = call.src)

\* C2: under the mask policy with encoded_type float, transform of a sequence
\* of observed values and missing sentinels, at least one of them a sentinel,
\* returns NaN exactly at the sentinels' positions and the delegate's code of
\* the entry everywhere else, and does not raise.
C2_MaskPlaceholder ==
    (/\ call.op = "transform" /\ Fitted /\ mask_missing(enc) /\ enc.encoded_type = "float"
     /\ call.arg.shape = "seq"
     /\ \E j \in 1..Len(call.arg.v) : Missing(call.arg.v[j])
     /\ \A j \in 1..Len(call.arg.v) : Missing(call.arg.v[j]) \/ Observed(call.arg.v[j]))
    => /\ call.err = ""
       /\ Len(call.ret.v) = Len(call.arg.v)
       /\ \A j \in 1..Len(call.arg.v) :
             IF Missing(call.arg.v[j]) THEN call.ret.v[j] = NaN
             ELSE /\ call.ret.v[j] # NaN
                  /\ LET one == transform(enc, Obj("seq", <<call.arg.v[j]>>))
                     IN  one.err = "" /\ call.ret.v[j].i = one.v[1].i

\* C3: under the encode policy, once fitted on a column that holds a missing
\* sentinel, transform encodes every missing sentinel as it encodes
\* missing_replaced_by, and marks nothing as missing.
C3_EncodeSentinel ==
    (/\ call.op = "transform" /\ Fitted /\ encode_missing(enc)
     /\ \E v \in Range(lastFit.v) : Missing(v)
     /\ call.arg.shape = "seq" /\ Len(call.arg.v) = 1 /\ Missing(call.arg.v[1]))
    => /\ call.err = ""
       /\ call.ret = transform(enc, Obj("seq", <<enc.missing_replaced_by>>))
       /\ NaN \notin Range(call.ret.v)

\* C4: a value outside the fitted classes: the one-hot feature encoder returns
\* an all-zero row for it and raises nothing; label target, label feature and
\* one-hot target encoders raise.
C4_UnseenCategory ==
    (/\ call.op = "transform" /\ Fitted /\ call.arg.shape = "seq" /\ Len(call.arg.v) >= 1
     /\ \A j \in 1..Len(call.arg.v) :
           call.arg.v[j] \notin Range(enc.classes.v) /\ ~Missing(call.arg.v[j]))
    => IF OneHotFeature
       THEN call.err = "" /\ \A j \in 1..Len(call.ret.v) : call.ret.v[j] = [k |-> "rowf", i |-> 0]
       ELSE call.err # ""

\* C5: __init__ given a strategy name or a missing-value policy outside the
\* recognised ones raises, and no Encoder comes back.
C5_ConstructionRejects ==
    (/\ call.op = "init"
     /\ \/ call.type \notin {"label", "one-hot", "no-op"}
        \/ call.missing_handle \notin {"ignore", "mask", "encode"})
    => (call.err \in {"AssertionError", "ValueError"} /\ ~enc.exists)

C5_Witness ==
    /\ call.op = "init" /\ call.type = "binary" /\ call.missing_handle = "drop"
    /\ call.err # "" /\ ~enc.exists

C7_NoOpIdentity ==
    (enc.exists /\ enc.delegate = "None")
    => /\ enc.classes = NoObj /\ enc.enc_classes = NoObj
       /\ enc.str_classes = NoObj /\ enc.delegate_classes = NoObj
       /\ enc.missing_encoded_value = None
       /\ call.op = "fit" => (call.err = "" /\ call.self)
       /\ call.op \in {"transform", "inverse_transform"} => (call.err = "" /\ call.ret = call.arg)

\* a no-op encoder under the mask policy after fit, transform, inverse_transform
C7_Witness ==
    /\ enc.exists /\ enc.delegate = "None" /\ enc.missing_handle = "mask"
    /\ lastFit # NoObj
    /\ call.op = "inverse_transform" /\ call.src # NoObj /\ call.ret = call.src

\* the fitted fields of an encoder
FittedState(e) ==
    <<e.classes, e.enc_classes, e.str_classes, e.delegate_classes, e.missing_encoded_value>>

\* the encoder as __init__ left it
Unfitted(e) ==
    [e EXCEPT !.classes = NoObj, !.enc_classes = NoObj, !.str_classes = NoObj,
              !.delegate_classes = NoObj, !.missing_encoded_value = None]

\* C9: the fitted state of a stateful encoder is the one a fresh encoder of the
\* same configuration has after one fit on the argument of the last fit that
\* returned, whatever was fitted, transformed or decoded before.
C9_RefitOverwrites ==
    (enc.exists /\ HasDelegate(enc) /\ lastFit # NoObj)
    => FittedState(enc) = FittedState(fit(Unfitted(enc), lastFit).e)

\* a second fit that dropped a value of the first
C9_Witness ==
    /\ call.op = "fit" /\ call.err = "" /\ HasDelegate(enc)
    /\ call.prev # NoObj
    /\ \E v \in Range(call.prev.v) : v \notin Range(enc.classes.v)

\* C10: the delegate is fitted on the pre-encoded classes when a pre-encoder is
\* configured, so that what transform hands it for an observed value is in its
\* vocabulary; without a pre-encoder it is fitted on the classes themselves.
C10_DelegateDomain ==
    Fitted =>
        IF enc.str_encoder # "None"
        THEN /\ enc.delegate_classes = enc.enc_classes
             /\ \A v \in Range(enc.classes.v) :
                   LET pre == PreEncode(enc, <<v>>)
                   IN  pre.err = "" /\ pre.v[1] \in Range(enc.delegate_classes.v)
        ELSE enc.delegate_classes = enc.classes

----------------------------------------------------------------------------
(* Property of run, stated for SpecRun *)

\* C8: when run is left, by return or by exception, a connection that was
\* opened has been closed.
C8_ConnectionClosed == pc = "done" => conn # "open"

====
